---- MODULE Spec2Model ----
(***************************************************************************)
(* drizzle-flags: a MySQL custom column that packs named booleans into one *)
(* integer (src/src/index.ts).                                             *)
(*                                                                         *)
(* Representation of values.                                               *)
(*   - A flag name is a JavaScript string, modelled as the sequence of its *)
(*     characters (<<"f","1","0">> is 'f10').                              *)
(*   - A JavaScript object is its own-property key list in the order       *)
(*     Object.keys reports it, plus the key |-> value function.            *)
(*   - An integer is a 64-bit two's-complement word, modelled as the set   *)
(*     of the positions of its 1 bits (5 is {0,2}, -1 is 0..63). The       *)
(*     JavaScript operators |, & and << work on the low 32 bits of their   *)
(*     operands and sign-extend the result; MySQL's & works on all 64.     *)
(***************************************************************************)
EXTENDS Integers, Sequences, FiniteSets, TLC

\* ------------------------------------------------------------------ bounds
\* Longest generated flag list f0 .. f(MaxFlags-1).
MaxFlags == 66
\* Flag lists up to this length get every value and stored integer, and the
\* selections of up to MaxSel names; longer ones get those with at most one flag.
FullLen == 6
\* Largest selection array passed to f1 / f0.
MaxSel == 2

\* ------------------------------------------------------- JavaScript strings
DigitChars == <<"0", "1", "2", "3", "4", "5", "6", "7", "8", "9">>

IsDigit(c) == \E d \in 1..10 : DigitChars[d] = c

DigitVal(c) == (CHOOSE d \in 1..10 : DigitChars[d] = c) - 1

\* Number.prototype.toString for 0 <= i < 1000
NumberToString(i) ==
    IF i < 10 THEN <<DigitChars[i + 1]>>
    ELSE IF i < 100 THEN <<DigitChars[(i \div 10) + 1], DigitChars[(i % 10) + 1]>>
    ELSE <<DigitChars[(i \div 100) + 1], DigitChars[((i \div 10) % 10) + 1],
           DigitChars[(i % 10) + 1]>>

\* a < b for two digit strings of equal length
LexLess(a, b) ==
    \E k \in 1..Len(a) :
        /\ \A j \in 1..(k - 1) : a[j] = b[j]
        /\ DigitVal(a[k]) < DigitVal(b[k])

\* 2^32 - 2, the largest array index
MaxArrayIndex == <<"4", "2", "9", "4", "9", "6", "7", "2", "9", "4">>

\* A property key that is an array index: the canonical decimal string of an
\* integer in 0 .. 2^32 - 2.
IsArrayIndex(name) ==
    /\ Len(name) >= 1
    /\ \A j \in 1..Len(name) : IsDigit(name[j])
    /\ Len(name) = 1 \/ name[1] # "0"
    /\ \/ Len(name) < 10
       \/ Len(name) = 10 /\ (name = MaxArrayIndex \/ LexLess(name, MaxArrayIndex))

\* numeric a < b for two array-index keys
IndexLess(a, b) ==
    \/ Len(a) < Len(b)
    \/ Len(a) = Len(b) /\ LexLess(a, b)

\* ------------------------------------------------------- JavaScript objects
EmptyObject == [keys |-> <<>>, vals |-> [k \in {} |-> FALSE]]

HasOwn(obj, k) == k \in DOMAIN obj.vals

\* OrdinaryOwnPropertyKeys: array-index keys in ascending numeric order, then
\* the other string keys in the order they were created.
InsertKey(keys, k) ==
    IF IsArrayIndex(k)
    THEN LET below == {j \in 1..Len(keys) :
                          IsArrayIndex(keys[j]) /\ IndexLess(keys[j], k)}
             cnt == Cardinality(below)
         IN SubSeq(keys, 1, cnt) \o <<k>> \o SubSeq(keys, cnt + 1, Len(keys))
    ELSE Append(keys, k)

\* obj[k] = v
SetProp(obj, k, v) ==
    IF HasOwn(obj, k)
    THEN [obj EXCEPT !.vals[k] = v]
    ELSE [keys |-> InsertKey(obj.keys, k), vals |-> (k :> v) @@ obj.vals]

\* Object.keys(obj)
ObjectKeys(obj) == obj.keys

\* the truthiness of obj[k] for an object of booleans (undefined is falsy)
Truthy(obj, k) == HasOwn(obj, k) /\ obj.vals[k]

\* The loops below run their iterations lo .. hi-1 in order on an accumulator;
\* a range is run as its first half followed by its second half, the second
\* half starting from the computed result h of the first, which keeps the
\* evaluation shallow for long flag lists.
RECURSIVE FromEntriesLoop(_, _, _, _)
\* obj after the entries lo+1 .. hi are added in order
FromEntriesLoop(entries, lo, hi, obj) ==
    IF hi <= lo THEN obj
    ELSE IF hi = lo + 1 THEN SetProp(obj, entries[hi][1], entries[hi][2])
    ELSE LET mid == (lo + hi) \div 2
             half == FromEntriesLoop(entries, lo, mid, obj)
         IN [h \in {half} |-> FromEntriesLoop(entries, mid, hi, h)][half]

\* Object.fromEntries(entries)
FromEntries(entries) == FromEntriesLoop(entries, 0, Len(entries), EmptyObject)

\* Array.prototype.includes
Includes(arr, x) == \E j \in 1..Len(arr) : arr[j] = x

\* Array.prototype.indexOf (0-based; the element is present at every call)
IndexOf(arr, x) == (CHOOSE j \in 1..Len(arr) :
                        arr[j] = x /\ \A h \in 1..(j - 1) : arr[h] # x) - 1

\* ------------------------------------------------------------------ integers
Bits32 == 0..31

Zero == {}

\* the word of a small non-negative integer
Word(k) == {i \in 0..30 : (k \div (2 ^ i)) % 2 = 1}

\* ToInt32: keep the low 32 bits, read them as a signed 32-bit integer
ToInt32(x) ==
    LET low == x \cap Bits32
    IN IF 31 \in low THEN low \cup (32..63) ELSE low

\* 1 << i : the shift count is taken modulo 32
ShlOne(i) == ToInt32({i % 32})

\* a | b
BitOr(a, b) == ToInt32(a) \cup ToInt32(b)

\* a & b
BitAnd(a, b) == ToInt32(a) \cap ToInt32(b)

IsNegative(x) == 63 \in x

\* ---------------------------------------------------------------- the codec
IntSizes == << [type |-> "tinyint", size |-> 1],
               [type |-> "smallint", size |-> 2],
               [type |-> "mediumint", size |-> 3],
               [type |-> "int", size |-> 4],
               [type |-> "bigint", size |-> 8] >>

TooManyFlags == "Error: Too many flags"

\* the comparison of the loop written with < in place of <=
intTypeForFlagsStrict(nFlags) ==
    LET fit == {k \in 1..Len(IntSizes) : nFlags < 8 * IntSizes[k].size}
    IN IF fit = {} THEN TooManyFlags
       ELSE IntSizes[CHOOSE k \in fit : \A h \in fit : k <= h].type

\* the first entry of _intSizes, in declaration order, that has room
intTypeForFlags(nFlags) ==
    LET fit == {k \in 1..Len(IntSizes) : nFlags <= 8 * IntSizes[k].size}
    IN IF fit = {} THEN TooManyFlags
       ELSE IntSizes[CHOOSE k \in fit : \A h \in fit : k <= h].type

RECURSIVE flagsToIntLoop(_, _, _, _, _)
\* data after the iterations i = lo .. hi-1 of the loop
flagsToIntLoop(flgs, val, lo, hi, data) ==
    IF hi <= lo THEN data
    ELSE IF hi = lo + 1
    THEN (IF Truthy(val, flgs[lo + 1]) THEN BitOr(data, ShlOne(lo)) ELSE data)
    ELSE LET mid == (lo + hi) \div 2
             half == flagsToIntLoop(flgs, val, lo, mid, data)
         IN [h \in {half} |-> flagsToIntLoop(flgs, val, mid, hi, h)][half]

flagsToInt(flgs, val) == flagsToIntLoop(flgs, val, 0, Len(flgs), Zero)

\* customType.dataType
dataType(flgs) == intTypeForFlags(Len(flgs))

\* customType.toDriver
toDriver(flgs, val) == flagsToInt(flgs, val)

RECURSIVE fromDriverLoop(_, _, _, _, _)
\* data after the iterations i = lo .. hi-1 of the loop
fromDriverLoop(flgs, x, lo, hi, data) ==
    IF hi <= lo THEN data
    ELSE IF hi = lo + 1
    THEN SetProp(data, flgs[lo + 1], BitAnd(x, ShlOne(lo)) # Zero)
    ELSE LET mid == (lo + hi) \div 2
             half == fromDriverLoop(flgs, x, lo, mid, data)
         IN [h \in {half} |-> fromDriverLoop(flgs, x, mid, hi, h)][half]

\* customType.fromDriver, which is also column.mapFromDriverValue
fromDriver(flgs, x) == fromDriverLoop(flgs, x, 0, Len(flgs), EmptyObject)

\* ------------------------------------------------------------ MySQL operators
\* column & literal : both operands as 64-bit integers, BIGINT UNSIGNED result
SqlBitAnd(x, lit) == x \cap lit

\* unsigned = signed literal : an unsigned value never equals a negative one
SqlEq(u, lit) == ~IsNegative(lit) /\ u = lit

\* ------------------------------------------------------ predicate synthesizer
\* the flag list f and flagsExtras read back from the column's decode of 0
recoverFlags(column) == ObjectKeys(fromDriver(column, Zero))

\* typeof value === 'string' ? [value] : value
ValuesOf(sel) == IF sel.isString THEN <<sel.names[1]>> ELSE sel.names

\* a mask built as the OR of 1 << flags.indexOf(v) over the selected names, where
\* indexOf is -1 for an unknown name and 1 << -1 is 1 << 31
fByIndexOf(column, sel, target) ==
    LET flgs == recoverFlags(column)
        values == ValuesOf(sel)
        bitOf(v) == IF Includes(flgs, v) THEN ShlOne(IndexOf(flgs, v))
                    ELSE ShlOne(-1)
        int == ToInt32(UNION {bitOf(values[j]) : j \in 1..Len(values)})
    IN [error |-> FALSE, mask |-> int, rhs |-> IF target THEN int ELSE Zero]

\* f(column, value, target): the expression  column & mask = rhs
f(column, sel, target) ==
    LET flgs == recoverFlags(column)
        values == ValuesOf(sel)
        val == FromEntries([j \in 1..Len(flgs) |->
                               <<flgs[j], Includes(values, flgs[j])>>])
        int == flagsToInt(flgs, val)
    IN [error |-> FALSE, mask |-> int, rhs |-> IF target THEN int ELSE Zero]

f1(column, sel) == f(column, sel, TRUE)

f0(column, sel) == f(column, sel, FALSE)

\* flagsExtras(column): flag name |-> the literal of  column & literal
flagsExtras(column) ==
    LET flgs == recoverFlags(column)
    IN FromEntries([j \in 1..Len(flgs) |->
                       <<flgs[j], ShlOne(IndexOf(flgs, flgs[j]))>>])

\* the WHERE expression of f on a row whose column holds x
EvalWhere(expr, x) == SqlEq(SqlBitAnd(x, expr.mask), expr.rhs)

\* an extra on a row whose column holds x, after mapWith(!!val)
EvalExtra(lit, x) == SqlBitAnd(x, lit) # Zero

\* --------------------------------------------------------------------- inputs
\* flags('flags', ['f0', 'f1', ...]) with n names
Gen(n) == [i \in 1..n |-> <<"f">> \o NumberToString(i - 1)]

\* flag lists with names that are, or look like, array indices
SpecialLists ==
    { << <<"a">>, <<"b">>, <<"c">> >>,
      << <<"b">>, <<"1">> >>,
      << <<"1", "0">>, <<"2">>, <<"a">> >>,
      << <<"0", "1">>, <<"1">> >> }

FlagLists == {Gen(n) : n \in 1..MaxFlags} \cup SpecialLists

\* a name no flag list declares
Unknown == <<"n", "o", "p", "e">>

RECURSIVE UpTo(_, _)
\* the subsets of S with at most k elements
UpTo(S, k) ==
    IF k = 0 THEN {{}}
    ELSE LET smaller == UpTo(S, k - 1)
         IN smaller \cup {T \cup {e} : T \in smaller, e \in S}

\* the sets of flag positions that are set in an input for n flags
BitSets(n) ==
    IF n <= FullLen THEN SUBSET (0..(n - 1))
    ELSE {{}} \cup {{i} : i \in 0..(n - 1)}

\* the object literal { name: boolean, ... } with the flags at T true
MakeValue(flgs, T) ==
    FromEntries([j \in 1..Len(flgs) |-> <<flgs[j], (j - 1) \in T>>])

Values(flgs) == {MakeValue(flgs, T) : T \in BitSets(Len(flgs))}

Min(a, b) == IF a <= b THEN a ELSE b

\* stored integers in [0, 2^n), n capped at 63 bits
Raws(flgs) == BitSets(Min(Len(flgs), 63))

\* the elements of pool at the positions in T, in ascending position
Pick(pool, T) ==
    [j \in 1..Cardinality(T) |->
        pool[CHOOSE t \in T : Cardinality({u \in T : u < t}) = j - 1]]

\* the selections passed to f1 / f0: one name as a string, or an array of known
\* names that may also hold the unknown name
Selections(flgs) ==
    LET pool == Append(flgs, Unknown)
        n == Len(flgs)
        known == UpTo(1..n, IF n <= FullLen THEN MaxSel ELSE 1)
        sets == {T \in known \cup {T \cup {n + 1} : T \in known} : T # {}}
    IN {[isString |-> FALSE, names |-> Pick(pool, T)] : T \in sets}
       \cup {[isString |-> TRUE, names |-> <<pool[j]>>] : j \in 1..(n + 1)}

\* ---------------------------------------------------------------------- state
VARIABLES
    flags,      \* the flag list the column was declared with
    given,      \* what the caller holds at the start: "value", "driver", "selection" or "column"
    op,         \* the last call made on the column
    value,      \* data side: the mapping passed to toDriver or returned by fromDriver
    driver,     \* driver side: the integer returned by toDriver or passed to fromDriver
    echo,       \* history: the argument of the call before the last one, when the calls are chained
    selection,  \* the selection passed to f1 / f0
    sqlExpr,    \* the expression f1 / f0 returned
    extras,     \* the object flagsExtras returned
    sqlType     \* the result of dataType

vars == <<flags, given, op, value, driver, echo, selection, sqlExpr, extras, sqlType>>

NoEcho == [valid |-> FALSE, value |-> EmptyObject, driver |-> Zero]
NoSelection == [isString |-> FALSE, names |-> <<>>]
NoSql == [error |-> FALSE, mask |-> Zero, rhs |-> Zero]
NoType == ""

\* A declared column, and the argument of the first call made on it.
Init ==
    /\ flags \in FlagLists
    /\ given \in {"value", "driver", "selection", "column"}
    /\ op = "init"
    /\ value \in IF given = "value" THEN Values(flags) ELSE {EmptyObject}
    /\ driver \in IF given = "driver" THEN Raws(flags) ELSE {Zero}
    /\ selection \in IF given = "selection" THEN Selections(flags) ELSE {NoSelection}
    /\ echo = NoEcho
    /\ sqlExpr = NoSql
    /\ extras = EmptyObject
    /\ sqlType = NoType

\* dataType(): the column's SQL type
DataType ==
    /\ op = "init" /\ given = "column"
    /\ op' = "dataType"
    /\ sqlType' = dataType(flags)
    /\ UNCHANGED <<flags, given, value, driver, echo, selection, sqlExpr, extras>>

\* toDriver(value): the given mapping, or the mapping just read, is written
ToDriver ==
    /\ (op = "init" /\ given = "value") \/ op = "fromDriver"
    /\ op' = "toDriver"
    /\ driver' = toDriver(flags, value)
    /\ echo' = IF op = "fromDriver"
               THEN [valid |-> TRUE, value |-> EmptyObject, driver |-> driver]
               ELSE NoEcho
    /\ UNCHANGED <<flags, given, value, selection, sqlExpr, extras, sqlType>>

\* fromDriver(driver): the given integer, or the integer just written, is read
FromDriver ==
    /\ (op = "init" /\ given = "driver") \/ op = "toDriver"
    /\ op' = "fromDriver"
    /\ value' = fromDriver(flags, driver)
    /\ echo' = IF op = "toDriver"
               THEN [valid |-> TRUE, value |-> value, driver |-> Zero]
               ELSE NoEcho
    /\ UNCHANGED <<flags, given, driver, selection, sqlExpr, extras, sqlType>>

\* f1(column, selection)
F1 ==
    /\ op = "init" /\ given = "selection"
    /\ op' = "f1"
    /\ sqlExpr' = f1(flags, selection)
    /\ UNCHANGED <<flags, given, value, driver, echo, selection, extras, sqlType>>

\* f0(column, selection)
F0 ==
    /\ op = "init" /\ given = "selection"
    /\ op' = "f0"
    /\ sqlExpr' = f0(flags, selection)
    /\ UNCHANGED <<flags, given, value, driver, echo, selection, extras, sqlType>>

\* flagsExtras(column)
FlagsExtras ==
    /\ op = "init" /\ given = "column"
    /\ op' = "flagsExtras"
    /\ extras' = flagsExtras(flags)
    /\ UNCHANGED <<flags, given, value, driver, echo, selection, sqlExpr, sqlType>>

Next == DataType \/ ToDriver \/ FromDriver \/ F1 \/ F0 \/ FlagsExtras

Spec == Init /\ [][Next]_vars

\* ---------------------------------------------------------------- properties
Names(flgs) == {flgs[j] : j \in 1..Len(flgs)}

\* a flag list of 1..64 unique names
Declarable(flgs) == Len(flgs) \in 1..64 /\ Cardinality(Names(flgs)) = Len(flgs)

\* two mappings give every name the same boolean
SameMapping(a, b) ==
    /\ DOMAIN a.vals = DOMAIN b.vals
    /\ \A k \in DOMAIN a.vals : a.vals[k] = b.vals[k]

\* 0 <= x < 2^n
InRange(x, n) == ~IsNegative(x) /\ x \subseteq 0..(n - 1)

\* x is a value of the signed integer type of w bytes: -2^(8w-1) <= x < 2^(8w-1)
FitsSigned(x, w) ==
    LET high == (8 * w - 1)..63
    IN high \cap x = {} \/ high \subseteq x

SizeOf(type) == (CHOOSE k \in 1..Len(IntSizes) : IntSizes[k].type = type)

\* the selection names only declared flags, and at least one
KnownSelection(flgs, sel) ==
    /\ Len(sel.names) >= 1
    /\ \A j \in 1..Len(sel.names) : sel.names[j] \in Names(flgs)

HasUnknown(flgs, sel) == \E j \in 1..Len(sel.names) : sel.names[j] \notin Names(flgs)

\* the selection as an array without the names the column does not declare
KnownOnly(flgs, sel) ==
    [isString |-> FALSE,
     names |-> SelectSeq(sel.names, LAMBDA nm : nm \in Names(flgs))]

\* C1: fromDriver(toDriver(v)) gives every flag of v the boolean it has in v,
\* for every list of 1..64 unique names.
C1_ValueRoundTrip ==
    (op = "fromDriver" /\ echo.valid /\ Declarable(flags))
        => SameMapping(value, echo.value)

\* C2: toDriver(fromDriver(r)) = r for every r in [0, 2^n), n in 1..64.
C2_IntegerRoundTrip ==
    (op = "toDriver" /\ echo.valid /\ Declarable(flags)
        /\ InRange(echo.driver, Len(flags)))
        => driver = echo.driver

\* C3: dataType is the narrowest of tinyint/smallint/mediumint/int/bigint with
\* 8 * bytes >= n for n in 1..64 (1..8 tinyint, 9..16 smallint, 17..24 mediumint,
\* 25..32 int, 33..64 bigint), and an error for n > 64.
C3_WidthSelection ==
    op = "dataType" =>
        LET n == Len(flags)
        IN /\ n \in 1..8 => sqlType = "tinyint"
           /\ n \in 9..16 => sqlType = "smallint"
           /\ n \in 17..24 => sqlType = "mediumint"
           /\ n \in 25..32 => sqlType = "int"
           /\ n \in 33..64 => sqlType = "bigint"
           /\ n \in 1..64 =>
                \E k \in 1..Len(IntSizes) :
                    /\ IntSizes[k].type = sqlType
                    /\ 8 * IntSizes[k].size >= n
                    /\ \A h \in 1..Len(IntSizes) :
                          8 * IntSizes[h].size >= n
                              => IntSizes[k].size <= IntSizes[h].size
           /\ n > 64 => sqlType = TooManyFlags

C3_Witness == op = "dataType" /\ Len(flags) = 65 /\ sqlType = TooManyFlags

\* C4: the comparison f1 builds is true of a stored x in [0, 2^n) exactly when
\* every selected flag is true in the decoding of x.
C4_F1AllSet ==
    (op = "f1" /\ Declarable(flags) /\ KnownSelection(flags, selection))
        => \A x \in Raws(flags) :
              EvalWhere(sqlExpr, x)
                  <=> \A j \in 1..Len(selection.names) :
                        Truthy(fromDriver(flags, x), selection.names[j])

\* C5: the comparison f0 builds is true of a stored x in [0, 2^n) exactly when
\* every selected flag is false in the decoding of x.
C5_F0AllClear ==
    (op = "f0" /\ Declarable(flags) /\ KnownSelection(flags, selection))
        => \A x \in Raws(flags) :
              EvalWhere(sqlExpr, x)
                  <=> \A j \in 1..Len(selection.names) :
                        ~Truthy(fromDriver(flags, x), selection.names[j])

\* C6: flagsExtras has one entry per declared flag, and the entry of the flag
\* declared at index i is, on a stored x in [0, 2^n), bit i of x, which is the
\* flag's value in the decoding of x.
C6_ExtrasAgreeWithDecode ==
    (op = "flagsExtras" /\ Declarable(flags))
        => /\ DOMAIN extras.vals = Names(flags)
           /\ Len(ObjectKeys(extras)) = Len(flags)
           /\ \A x \in Raws(flags) : \A i \in 0..(Len(flags) - 1) :
                 /\ EvalExtra(extras.vals[flags[i + 1]], x) = (i \in x)
                 /\ EvalExtra(extras.vals[flags[i + 1]], x)
                        = Truthy(fromDriver(flags, x), flags[i + 1])

\* C7 as stated: f1 / f0 with a selection holding an undeclared name raises an
\* error and returns no comparison.
C7_UnknownNameRaises ==
    (op \in {"f1", "f0"} /\ HasUnknown(flags, selection)) => sqlExpr.error

\* C7 as amended: f1 / f0 with a selection holding an undeclared name raises
\* nothing and returns the comparison of the selection without that name: its
\* mask has the bits of the declared names only, none when no name is declared.
C7_UnknownNameDropped ==
    (op \in {"f1", "f0"} /\ HasUnknown(flags, selection))
        => /\ ~sqlExpr.error
           /\ sqlExpr.mask = f(flags, KnownOnly(flags, selection), op = "f1").mask
           /\ sqlExpr.rhs = (IF op = "f1" THEN sqlExpr.mask ELSE Zero)
           /\ KnownOnly(flags, selection).names = <<>> => sqlExpr.mask = Zero

C7_Witness ==
    /\ op = "f1"
    /\ flags = Gen(6)
    /\ selection = [isString |-> FALSE, names |-> <<Gen(6)[3], Unknown>>]
    /\ sqlExpr.mask = Word(4)

\* C8: toDriver's integer is in [0, 2^n) and its bit i is set exactly when the
\* flag declared at index i is true, for n in 1..64.
C8_EncodeRange ==
    (op = "toDriver" /\ Declarable(flags))
        => /\ InRange(driver, Len(flags))
           /\ \A i \in 0..(Len(flags) - 1) :
                 (i \in driver) <=> Truthy(value, flags[i + 1])

\* C9: the names f1, f0 and flagsExtras read back from the decode of 0 are the
\* declared list, in the declared order, whatever the names are.
C9_RecoveredOrder ==
    (op \in {"f1", "f0", "flagsExtras"}
        /\ Cardinality(Names(flags)) = Len(flags))
        => recoverFlags(flags) = flags

\* C10: toDriver's integer is a value of the signed integer type dataType
\* declares for the column, for n in 1..64.
C10_FitsDeclaredType ==
    (op = "toDriver" /\ Declarable(flags))
        => FitsSigned(driver, IntSizes[SizeOf(dataType(flags))].size)

====
